---------------------------- MODULE Spec2Model ----------------------------
(***************************************************************************)
(* Resume parser service (src/main.py, src/resume_parser.py).              *)
(*                                                                         *)
(* Python strings are sequences of one-character strings.  The character   *)
(* U+0008 (backspace) is written BACKSPACE.  Python's None is the empty    *)
(* tuple <<>> and a present optional value v is <<v>>.  An operation that  *)
(* can raise returns [ok |-> TRUE, value |-> v] or                         *)
(* [ok |-> FALSE, exc |-> <exception class>, at |-> <where it was raised>].*)
(***************************************************************************)
EXTENDS Integers, Sequences, FiniteSets, TLC

VARIABLES
    PDF_AVAILABLE,   \* resume_parser.py:9-13, set once at import
    DOCX_AVAILABLE,  \* resume_parser.py:15-20, set once at import
    resume_parser,   \* main.py:32, the process-wide ResumeParser instance
    hashseed,        \* the order this process's string hashing gives to a set
    utcnow,          \* what datetime.utcnow() returns
    pc,              \* position of the operation in progress
    request,         \* the call being served: endpoint or function, and its input
    response,        \* what the call returned
    io               \* reads and decoder calls made on behalf of the request

vars == <<PDF_AVAILABLE, DOCX_AVAILABLE, resume_parser, hashseed, utcnow, pc, request,
          response, io>>

(***************************************************************************)
(* Python values                                                           *)
(***************************************************************************)
None == <<>>
Some(v) == <<v>>
Ok(v) == [ok |-> TRUE, value |-> v]
Raise(exc, at) == [ok |-> FALSE, exc |-> exc, at |-> at]

BACKSPACE == "\\x08"

UPPERCASE == <<"A", "B", "C", "D", "E", "F", "G", "H", "I", "J", "K", "L", "M", "N", "O", "P", "Q", "R", "S", "T", "U", "V", "W", "X", "Y", "Z">>
LOWERCASE == <<"a", "b", "c", "d", "e", "f", "g", "h", "i", "j", "k", "l", "m", "n", "o", "p", "q", "r", "s", "t", "u", "v", "w", "x", "y", "z">>
UpperSet == {UPPERCASE[k] : k \in 1..26}
LowerSet == {LOWERCASE[k] : k \in 1..26}
AlphaSet == UpperSet \cup LowerSet
DigitSet == {"0", "1", "2", "3", "4", "5", "6", "7", "8", "9"}
SpaceSet == {" ", "\t", "\n", "\r", "\f"}
WordSet == AlphaSet \cup DigitSet \cup {"_"}

LowerChar(c) == IF c \in UpperSet THEN LOWERCASE[CHOOSE k \in 1..26 : UPPERCASE[k] = c] ELSE c
UpperChar(c) == IF c \in LowerSet THEN UPPERCASE[CHOOSE k \in 1..26 : LOWERCASE[k] = c] ELSE c

\* max() of a non-empty set of integers
Max(S) == CHOOSE x \in S : \A y \in S : x >= y

\* The least (First) and the greatest (Last) c in lo..hi with P(c); hi + 1 and
\* lo - 1 when there is none.
First(lo, hi, P(_)) ==
    IF \A c \in lo..hi : ~P(c) THEN hi + 1
    ELSE CHOOSE c \in lo..hi : P(c) /\ \A d \in lo..(c - 1) : ~P(d)

Last(lo, hi, P(_)) == hi + lo - First(lo, hi, LAMBDA c : P(hi + lo - c))

\* The elements of a finite set of integers in ascending order.
SortedSeq(S) ==
    [k \in 1..Cardinality(S) |-> CHOOSE x \in S : Cardinality({y \in S : y < x}) = k - 1]

\* s[i:j] with 1-based inclusive bounds; empty when j < i.
Slice(s, i, j) == IF j < i THEN <<>> ELSE SubSeq(s, i, j)

\* s[:n]
Prefix(s, n) == IF Len(s) <= n THEN s ELSE SubSeq(s, 1, n)

\* str.lower()
str_lower(s) == [i \in 1..Len(s) |-> LowerChar(s[i])]

\* str.title(): a letter is upper-cased after a non-letter and lower-cased after a letter.
str_title(s) ==
    [i \in 1..Len(s) |->
        IF i > 1 /\ s[i - 1] \in AlphaSet THEN LowerChar(s[i]) ELSE UpperChar(s[i])]

\* str.strip()
str_strip(s) ==
    Slice(s, First(1, Len(s), LAMBDA i : s[i] \notin SpaceSet),
             Last(1, Len(s), LAMBDA i : s[i] \notin SpaceSet))

\* Whether sub occurs in s at position i.
OccursAt(sub, s, i) ==
    /\ i + Len(sub) - 1 <= Len(s)
    /\ \A k \in 1..Len(sub) : s[i + k - 1] = sub[k]

\* `sub in s`
str_in(sub, s) == \E i \in 1..(Len(s) - Len(sub) + 1) : OccursAt(sub, s, i)

\* The number of halvings that take n + 2 down to 1: a scan of a text of n
\* characters finds fewer than 2^Levels(n) matches.
Levels(n) == First(0, n + 2, LAMBDA d : 2^d >= n + 2)

\* s.count(sub): non-overlapping occurrences, scanning from the left.  CountN
\* counts up to 2^n occurrences from position i on, and next is where the scan
\* goes on.
RECURSIVE CountN(_, _, _, _)
CountOne(sub, s, p) ==
    IF p > Len(s) - Len(sub) + 1 THEN [count |-> 0, next |-> p]
    ELSE [count |-> 1, next |-> p + Len(sub)]

CountMore(a, b) == [count |-> a.count + b.count, next |-> b.next]

CountHalf(a, sub, s, n) ==
    IF a.next > Len(s) - Len(sub) + 1 THEN a ELSE CountMore(a, CountN(sub, s, a.next, n))

CountN(sub, s, i, n) ==
    IF n = 0
    THEN CountOne(sub, s, First(i, Len(s) - Len(sub) + 1, LAMBDA k : OccursAt(sub, s, k)))
    ELSE CountHalf(CountN(sub, s, i, n - 1), sub, s, n - 1)

str_count(sub, s) == CountN(sub, s, 1, Levels(Len(s))).count

\* The parts of s between the separator positions seps (ascending).
Parts(s, seps) ==
    [k \in 1..(Len(seps) + 1) |->
        Slice(s, IF k = 1 THEN 1 ELSE seps[k - 1] + 1,
                 IF k > Len(seps) THEN Len(s) ELSE seps[k] - 1)]

\* s.split(sep) for a one-character separator: always at least one part.
str_split(s, sep) == Parts(s, SortedSeq({i \in 1..Len(s) : s[i] = sep}))

\* The slices of s from starts[k] to ends[k].
Slices(s, starts, ends) == [k \in 1..Len(starts) |-> Slice(s, starts[k], ends[k])]

\* s.split(): the maximal runs of non-whitespace characters.
str_split_ws(s) ==
    Slices(s,
        SortedSeq({i \in 1..Len(s) : s[i] \notin SpaceSet /\ (i = 1 \/ s[i - 1] \in SpaceSet)}),
        SortedSeq({i \in 1..Len(s) : s[i] \notin SpaceSet /\ (i = Len(s) \/ s[i + 1] \in SpaceSet)}))

\* The concatenation of a sequence of sequences.
RECURSIVE ConcatRange(_, _, _)
ConcatRange(parts, lo, hi) ==
    IF lo > hi THEN <<>>
    ELSE IF lo = hi THEN parts[lo]
    ELSE ConcatRange(parts, lo, (lo + hi) \div 2) \o ConcatRange(parts, (lo + hi) \div 2 + 1, hi)

Concat(parts) == ConcatRange(parts, 1, Len(parts))

\* sep.join(parts)
str_join(sep, parts) ==
    Concat([k \in 1..(2 * Len(parts) - 1) |-> IF k % 2 = 1 THEN parts[(k + 1) \div 2] ELSE sep])

\* str.replace(old, "") for a one-character old
str_remove(s, old) == SelectSeq(s, LAMBDA c : c # old)

\* str.isalpha(): non-empty and all letters
str_isalpha(s) == Len(s) > 0 /\ \A i \in 1..Len(s) : s[i] \in AlphaSet


(***************************************************************************)
(* Python's re module: a backtracking matcher over a sequence of nodes.    *)
(* A character class is a set of characters, or all characters but a set.  *)
(***************************************************************************)
Class(chars) == [neg |-> FALSE, chars |-> chars]
AllBut(chars) == [neg |-> TRUE, chars |-> chars]

DIGIT == Class(DigitSet)              \* \d
WORDCHAR == Class(WordSet)            \* \w
WHITESPACE == Class(SpaceSet)         \* \s
NEWLINE == Class({"\n"})
DOT == AllBut({"\n"})                 \* .

InClass(c, cls) == (c \in cls.chars) # cls.neg

\* Under re.IGNORECASE a character matches when either of its cases does.
Matches(c, cls, ic) ==
    InClass(c, cls) \/ (ic /\ (InClass(LowerChar(c), cls) \/ InClass(UpperChar(c), cls)))

\* Nodes.  The upper limit of a repetition is None (no limit) or Some(n).
Ch(cls) == [t |-> "ch", cls |-> cls]
Rep(cls, lo, hi, greedy) == [t |-> "rep", cls |-> cls, lo |-> lo, hi |-> hi, greedy |-> greedy]
Alt(alts) == [t |-> "alt", alts |-> alts]
Open(g) == [t |-> "open", g |-> g]
Close(g) == [t |-> "close", g |-> g]
WordBoundary == [t |-> "wb"]

\* ((?:word)+(?:gap)*)* with the round as group g, for disjoint classes word and
\* gap.  The rounds can end at the start and anywhere in the run of word and gap
\* characters that begins with a word character there; backtracking gives the
\* run back one character at a time, and the last round begins at the last
\* start of a word before the end.
StarGroup(g, word, gap) == [t |-> "stargroup", g |-> g, word |-> word, gap |-> gap]

Lit(chars) == <<[t |-> "lit", chars |-> chars]>>
\* x? for one character
Maybe(c) == Rep(Class({c}), 0, Some(1), TRUE)
\* (...)  a capturing group
Group(g, nodes) == <<Open(g)>> \o nodes \o <<Close(g)>>
\* (?:...)?  an optional non-capturing group, greedy
Optional(nodes) == Alt(<<nodes, <<>>>>)
\* (a|b|...) over literal strings
AnyOf(strings) == Alt([k \in 1..Len(strings) |-> Lit(strings[k])])

\* Captures: per group <<begin of the open attempt, begin, end>>; begin = 0: unset.
NoCaps == << <<0, 0, 0>>, <<0, 0, 0>> >>
NoMatch == [ok |-> FALSE, start |-> 0, end |-> 0, caps |-> NoCaps]

\* Whether the literal occurs in s at position i.
LitAt(chars, s, i, ic) ==
    /\ i + Len(chars) - 1 <= Len(s)
    /\ \A k \in 1..Len(chars) :
          s[i + k - 1] = chars[k] \/ (ic /\ LowerChar(s[i + k - 1]) = LowerChar(chars[k]))

\* n, or the limit hi when n is over it.
AtMost(n, hi) == IF hi # None /\ n > hi[1] THEN hi[1] ELSE n

\* Length of the run of class characters of s starting at i, at most hi.
RunLen(s, i, cls, ic, hi) ==
    AtMost(First(i, Len(s), LAMBDA k : ~Matches(s[k], cls, ic)) - i, hi)

AtWordBoundary(s, i) ==
    (i > 1 /\ s[i - 1] \in WordSet) # (i <= Len(s) /\ s[i] \in WordSet)

StarRun(n, s, p, ic) ==
    IF p > Len(s) \/ ~Matches(s[p], n.word, ic) THEN 0
    ELSE First(p, Len(s), LAMBDA k : ~Matches(s[k], n.word, ic) /\ ~Matches(s[k], n.gap, ic)) - p

LastRound(n, s, p, q, ic) ==
    Last(p, q - 1, LAMBDA x : Matches(s[x], n.word, ic)
                               /\ (x = p \/ ~Matches(s[x - 1], n.word, ic)))

StarCaps(n, s, p, q, caps, ic) ==
    IF q = p THEN caps ELSE [caps EXCEPT ![n.g] = <<0, LastRound(n, s, p, q, ic), q>>]

RECURSIVE Match(_, _, _, _, _)

\* rest after k characters of a repetition; no match when there is no such k.
RepAt(rest, s, i, k, lo, run, caps, ic) ==
    IF k < lo \/ k > run THEN NoMatch ELSE Match(rest, s, i + k, caps, ic)

\* rest after the other lengths of a repetition, when r, the first try, failed.
RepRetry(r, rest, s, i, lo, run, greedy, caps, ic) ==
    IF r.ok THEN r
    ELSE RepAt(rest, s, i,
               IF greedy THEN Last(lo, run - 1, LAMBDA j : Match(rest, s, i + j, caps, ic).ok)
               ELSE First(lo + 1, run, LAMBDA j : Match(rest, s, i + j, caps, ic).ok),
               lo, run, caps, ic)

\* A repetition of lo to run characters before rest: the longest (greedy) or the
\* shortest length after which rest matches.
RepMatch(rest, s, i, lo, run, greedy, caps, ic) ==
    IF run < lo THEN NoMatch
    ELSE RepRetry(Match(rest, s, i + (IF greedy THEN run ELSE lo), caps, ic),
                  rest, s, i, lo, run, greedy, caps, ic)

\* The alternatives of an alternation from the a-th on, in order, each before rest.
RECURSIVE AltFrom(_, _, _, _, _, _, _)
AltNext(r, alts, a, rest, s, i, caps, ic) ==
    IF r.ok THEN r ELSE AltFrom(alts, a + 1, rest, s, i, caps, ic)

AltFrom(alts, a, rest, s, i, caps, ic) ==
    IF a > Len(alts) THEN NoMatch
    ELSE AltNext(Match(alts[a] \o rest, s, i, caps, ic), alts, a, rest, s, i, caps, ic)

\* rest after the rounds of a star group that end at i + k.
StarAt(n, rest, s, i, k, caps, ic) ==
    IF k < 0 THEN NoMatch
    ELSE Match(rest, s, i + k, StarCaps(n, s, i, i + k, caps, ic), ic)

StarMatch(n, rest, s, i, run, caps, ic) ==
    StarAt(n, rest, s, i,
           Last(0, run, LAMBDA j : Match(rest, s, i + j, StarCaps(n, s, i, i + j, caps, ic), ic).ok),
           caps, ic)

\* The first way, in Python's backtracking order, to match nodes at position i.
MatchNode(n, rest, s, i, caps, ic) ==
    CASE n.t = "lit" ->
            IF LitAt(n.chars, s, i, ic) THEN Match(rest, s, i + Len(n.chars), caps, ic) ELSE NoMatch
      [] n.t = "ch" ->
            IF i <= Len(s) /\ Matches(s[i], n.cls, ic) THEN Match(rest, s, i + 1, caps, ic)
            ELSE NoMatch
      [] n.t = "rep" ->
            RepMatch(rest, s, i, n.lo, RunLen(s, i, n.cls, ic, n.hi), n.greedy, caps, ic)
      [] n.t = "alt" -> AltFrom(n.alts, 1, rest, s, i, caps, ic)
      [] n.t = "stargroup" -> StarMatch(n, rest, s, i, StarRun(n, s, i, ic), caps, ic)
      [] n.t = "open" -> Match(rest, s, i, [caps EXCEPT ![n.g][1] = i], ic)
      [] n.t = "close" -> Match(rest, s, i, [caps EXCEPT ![n.g] = <<0, caps[n.g][1], i>>], ic)
      [] n.t = "wb" -> IF AtWordBoundary(s, i) THEN Match(rest, s, i, caps, ic) ELSE NoMatch

Match(nodes, s, i, caps, ic) ==
    IF nodes = <<>> THEN [ok |-> TRUE, start |-> 0, end |-> i, caps |-> caps]
    ELSE MatchNode(Head(nodes), Tail(nodes), s, i, caps, ic)

\* Whether a match that begins with node n can begin with character c (TRUE when
\* the node does not tell).
CanStartWith(n, c, ic) ==
    CASE n.t = "ch" -> Matches(c, n.cls, ic)
      [] n.t = "rep" -> n.lo = 0 \/ Matches(c, n.cls, ic)
      [] n.t = "lit" -> n.chars = <<>> \/ LowerChar(c) = LowerChar(n.chars[1])
      [] OTHER -> TRUE

\* Whether a match of nodes starts at position c (Len(s) + 1 included: a pattern
\* may match the empty string there).
StartsAt(nodes, s, c, ic) ==
    /\ c = Len(s) + 1 \/ nodes = <<>> \/ CanStartWith(nodes[1], s[c], ic)
    /\ Match(nodes, s, c, NoCaps, ic).ok

\* The non-overlapping matches of nodes in s, leftmost first: the scan takes the
\* first position where a match starts, and goes on from the end of the match (one
\* further after an empty match).  ScanN gives up to 2^n matches from position i
\* on, and next, where the scan goes on.
RECURSIVE ScanN(_, _, _, _, _)
ScanOn(m) == [ms |-> <<m>>, next |-> IF m.end > m.start THEN m.end ELSE m.start + 1]

ScanAt(c, nodes, s, ic) ==
    IF c > Len(s) + 1 THEN [ms |-> <<>>, next |-> c]
    ELSE ScanOn([Match(nodes, s, c, NoCaps, ic) EXCEPT !.start = c])

ScanMore(a, b) == [ms |-> a.ms \o b.ms, next |-> b.next]

ScanHalf(a, nodes, s, n, ic) ==
    IF a.next > Len(s) + 1 THEN a ELSE ScanMore(a, ScanN(nodes, s, a.next, n, ic))

ScanN(nodes, s, i, n, ic) ==
    IF n = 0
    THEN ScanAt(First(i, Len(s) + 1, LAMBDA k : StartsAt(nodes, s, k, ic)), nodes, s, ic)
    ELSE ScanHalf(ScanN(nodes, s, i, n - 1, ic), nodes, s, n - 1, ic)

finditer(nodes, s, ic) == ScanN(nodes, s, 1, Levels(Len(s)), ic).ms

\* The text of group g of match m ("" when the group took no part); group 0 is
\* the whole match.
GroupText(s, m, g) ==
    IF g = 0 THEN Slice(s, m.start, m.end - 1)
    ELSE IF m.caps[g][2] = 0 THEN <<>>
    ELSE Slice(s, m.caps[g][2], m.caps[g][3] - 1)

\* The texts of group g of the matches ms.
Groups(ms, g, s) == [k \in 1..Len(ms) |-> GroupText(s, ms[k], g)]

\* re.findall for a pattern with at most one group: the texts of group g.
findall(nodes, g, s, ic) == Groups(finditer(nodes, s, ic), g, s)

\* The texts of groups 1 and 2 of the matches ms, as pairs.
Pairs(ms, s) == [k \in 1..Len(ms) |-> <<GroupText(s, ms[k], 1), GroupText(s, ms[k], 2)>>]

\* re.findall for a pattern with two groups
findall2(nodes, s, ic) == Pairs(finditer(nodes, s, ic), s)

\* The parts of s outside the matches ms, with repl in place of each match.
Splice(s, ms, repl) ==
    Concat([k \in 1..(Len(ms) + 1) |->
               IF k <= Len(ms)
               THEN Slice(s, IF k = 1 THEN 1 ELSE ms[k - 1].end, ms[k].start - 1) \o repl
               ELSE Slice(s, IF k = 1 THEN 1 ELSE ms[k - 1].end, Len(s))])

\* re.sub(pattern, repl, s)
re_sub(nodes, repl, s, ic) == Splice(s, finditer(nodes, s, ic), repl)


(***************************************************************************)
(* ResumeParser.__init__ (resume_parser.py:34-84)                          *)
(***************************************************************************)
skills_keywords == 
    <<<<"p", "y", "t", "h", "o", "n">>,
      <<"j", "a", "v", "a">>,
      <<"j", "a", "v", "a", "s", "c", "r", "i", "p", "t">>,
      <<"t", "y", "p", "e", "s", "c", "r", "i", "p", "t">>,
      <<"c", "+", "+">>,
      <<"c", "#">>,
      <<"p", "h", "p">>,
      <<"r", "u", "b", "y">>,
      <<"g", "o">>,
      <<"r", "u", "s", "t">>,
      <<"s", "w", "i", "f", "t">>,
      <<"k", "o", "t", "l", "i", "n">>,
      <<"s", "c", "a", "l", "a">>,
      <<"r">>,
      <<"m", "a", "t", "l", "a", "b">>,
      <<"s", "q", "l">>,
      <<"h", "t", "m", "l">>,
      <<"c", "s", "s">>,
      <<"s", "a", "s", "s">>,
      <<"l", "e", "s", "s">>,
      <<"r", "e", "a", "c", "t">>,
      <<"a", "n", "g", "u", "l", "a", "r">>,
      <<"v", "u", "e">>,
      <<"n", "o", "d", "e", ".", "j", "s">>,
      <<"e", "x", "p", "r", "e", "s", "s">>,
      <<"d", "j", "a", "n", "g", "o">>,
      <<"f", "l", "a", "s", "k">>,
      <<"s", "p", "r", "i", "n", "g">>,
      <<"l", "a", "r", "a", "v", "e", "l">>,
      <<"r", "a", "i", "l", "s">>,
      <<"a", "s", "p", ".", "n", "e", "t">>,
      <<".", "n", "e", "t">>,
      <<"f", "a", "s", "t", "a", "p", "i">>,
      <<"n", "e", "x", "t", "j", "s">>,
      <<"n", "u", "x", "t">>,
      <<"s", "v", "e", "l", "t", "e">>,
      <<"j", "q", "u", "e", "r", "y">>,
      <<"m", "y", "s", "q", "l">>,
      <<"p", "o", "s", "t", "g", "r", "e", "s", "q", "l">>,
      <<"m", "o", "n", "g", "o", "d", "b">>,
      <<"r", "e", "d", "i", "s">>,
      <<"s", "q", "l", "i", "t", "e">>,
      <<"o", "r", "a", "c", "l", "e">>,
      <<"s", "q", "l", " ", "s", "e", "r", "v", "e", "r">>,
      <<"e", "l", "a", "s", "t", "i", "c", "s", "e", "a", "r", "c", "h">>,
      <<"f", "i", "r", "e", "b", "a", "s", "e">>,
      <<"d", "y", "n", "a", "m", "o", "d", "b">>,
      <<"c", "a", "s", "s", "a", "n", "d", "r", "a">>,
      <<"n", "e", "o", "4", "j">>,
      <<"a", "w", "s">>,
      <<"a", "z", "u", "r", "e">>,
      <<"g", "c", "p">>,
      <<"g", "o", "o", "g", "l", "e", " ", "c", "l", "o", "u", "d">>,
      <<"d", "o", "c", "k", "e", "r">>,
      <<"k", "u", "b", "e", "r", "n", "e", "t", "e", "s">>,
      <<"j", "e", "n", "k", "i", "n", "s">>,
      <<"g", "i", "t", "l", "a", "b", " ", "c", "i">>,
      <<"g", "i", "t", "h", "u", "b", " ", "a", "c", "t", "i", "o", "n", "s">>,
      <<"t", "e", "r", "r", "a", "f", "o", "r", "m">>,
      <<"a", "n", "s", "i", "b", "l", "e">>,
      <<"v", "a", "g", "r", "a", "n", "t">>,
      <<"c", "h", "e", "f">>,
      <<"p", "u", "p", "p", "e", "t">>,
      <<"m", "a", "c", "h", "i", "n", "e", " ", "l", "e", "a", "r", "n", "i", "n", "g">>,
      <<"d", "e", "e", "p", " ", "l", "e", "a", "r", "n", "i", "n", "g">>,
      <<"a", "r", "t", "i", "f", "i", "c", "i", "a", "l", " ", "i", "n", "t", "e", "l", "l", "i", "g", "e", "n", "c", "e">>,
      <<"d", "a", "t", "a", " ", "s", "c", "i", "e", "n", "c", "e">>,
      <<"p", "a", "n", "d", "a", "s">>,
      <<"n", "u", "m", "p", "y">>,
      <<"s", "c", "i", "k", "i", "t", "-", "l", "e", "a", "r", "n">>,
      <<"t", "e", "n", "s", "o", "r", "f", "l", "o", "w">>,
      <<"p", "y", "t", "o", "r", "c", "h">>,
      <<"k", "e", "r", "a", "s">>,
      <<"o", "p", "e", "n", "c", "v">>,
      <<"n", "l", "t", "k">>,
      <<"s", "p", "a", "c", "y">>,
      <<"g", "i", "t">>,
      <<"l", "i", "n", "u", "x">>,
      <<"u", "n", "i", "x">>,
      <<"w", "i", "n", "d", "o", "w", "s">>,
      <<"m", "a", "c", "o", "s">>,
      <<"b", "a", "s", "h">>,
      <<"p", "o", "w", "e", "r", "s", "h", "e", "l", "l">>,
      <<"r", "e", "s", "t", " ", "a", "p", "i">>,
      <<"g", "r", "a", "p", "h", "q", "l">>,
      <<"m", "i", "c", "r", "o", "s", "e", "r", "v", "i", "c", "e", "s">>,
      <<"a", "g", "i", "l", "e">>,
      <<"s", "c", "r", "u", "m">>,
      <<"k", "a", "n", "b", "a", "n">>,
      <<"j", "i", "r", "a">>,
      <<"c", "o", "n", "f", "l", "u", "e", "n", "c", "e">>,
      <<"s", "l", "a", "c", "k">>,
      <<"t", "e", "a", "m", "s">>>>

education_keywords == 
    <<<<"b", "a", "c", "h", "e", "l", "o", "r">>,
      <<"m", "a", "s", "t", "e", "r">>,
      <<"p", "h", "d">>,
      <<"d", "o", "c", "t", "o", "r", "a", "t", "e">>,
      <<"d", "i", "p", "l", "o", "m", "a">>,
      <<"c", "e", "r", "t", "i", "f", "i", "c", "a", "t", "e">>,
      <<"d", "e", "g", "r", "e", "e">>,
      <<"b", ".", "t", "e", "c", "h">>,
      <<"m", ".", "t", "e", "c", "h">>,
      <<"b", ".", "s", "c">>,
      <<"m", ".", "s", "c">>,
      <<"b", ".", "c", "o", "m">>,
      <<"m", ".", "c", "o", "m">>,
      <<"b", "c", "a">>,
      <<"m", "c", "a">>,
      <<"m", "b", "a">>,
      <<"c", "o", "m", "p", "u", "t", "e", "r", " ", "s", "c", "i", "e", "n", "c", "e">>,
      <<"i", "n", "f", "o", "r", "m", "a", "t", "i", "o", "n", " ", "t", "e", "c", "h", "n", "o", "l", "o", "g", "y">>,
      <<"s", "o", "f", "t", "w", "a", "r", "e", " ", "e", "n", "g", "i", "n", "e", "e", "r", "i", "n", "g">>,
      <<"d", "a", "t", "a", " ", "s", "c", "i", "e", "n", "c", "e">>,
      <<"e", "l", "e", "c", "t", "r", "i", "c", "a", "l", " ", "e", "n", "g", "i", "n", "e", "e", "r", "i", "n", "g">>,
      <<"m", "e", "c", "h", "a", "n", "i", "c", "a", "l", " ", "e", "n", "g", "i", "n", "e", "e", "r", "i", "n", "g">>,
      <<"c", "i", "v", "i", "l", " ", "e", "n", "g", "i", "n", "e", "e", "r", "i", "n", "g">>>>

experience_keywords == 
    <<<<"i", "n", "t", "e", "r", "n">>,
      <<"j", "u", "n", "i", "o", "r">>,
      <<"s", "e", "n", "i", "o", "r">>,
      <<"l", "e", "a", "d">>,
      <<"p", "r", "i", "n", "c", "i", "p", "a", "l">>,
      <<"a", "r", "c", "h", "i", "t", "e", "c", "t">>,
      <<"m", "a", "n", "a", "g", "e", "r">>,
      <<"d", "i", "r", "e", "c", "t", "o", "r">>,
      <<"c", "e", "o">>,
      <<"c", "t", "o">>,
      <<"v", "p">>,
      <<"h", "e", "a", "d">>,
      <<"s", "p", "e", "c", "i", "a", "l", "i", "s", "t">>,
      <<"c", "o", "n", "s", "u", "l", "t", "a", "n", "t">>,
      <<"a", "n", "a", "l", "y", "s", "t">>,
      <<"d", "e", "v", "e", "l", "o", "p", "e", "r">>,
      <<"e", "n", "g", "i", "n", "e", "e", "r">>,
      <<"p", "r", "o", "g", "r", "a", "m", "m", "e", "r">>,
      <<"d", "e", "s", "i", "g", "n", "e", "r">>,
      <<"a", "d", "m", "i", "n", "i", "s", "t", "r", "a", "t", "o", "r">>>>

\* The spaCy model, when it could be loaded.
en_core_web_sm == <<"e", "n", "_", "c", "o", "r", "e", "_", "w", "e", "b", "_", "s", "m">>

\* The instance __init__ builds; nlp is None or Some(en_core_web_sm).
ResumeParser(nlp) ==
    [skills_keywords |-> skills_keywords,
     education_keywords |-> education_keywords,
     experience_keywords |-> experience_keywords,
     nlp |-> nlp]

\* The two orders in which list(set(...)) may give the elements in a process.
HashOrders == {"forward", "reverse"}

\* datetime.utcnow().isoformat() at the times the clock shows, in order.
Clock == <<<<"2", "0", "2", "4", "-", "0", "1", "-", "0", "1", "T", "0", "0", ":", "0", "0", ":", "0", "0">>, <<"2", "0", "2", "4", "-", "0", "1", "-", "0", "1", "T", "0", "0", ":", "0", "0", ":", "0", "1">>>>

\* The state the imports and the construction of the instance can leave.
Imported ==
    /\ PDF_AVAILABLE \in BOOLEAN
    /\ DOCX_AVAILABLE \in BOOLEAN
    /\ resume_parser \in {ResumeParser(None), ResumeParser(Some(en_core_web_sm))}
    /\ hashseed \in HashOrders
    /\ utcnow = Clock[1]

\* Every optional dependency installed and the spaCy model not loaded.
Installed ==
    /\ PDF_AVAILABLE = TRUE
    /\ DOCX_AVAILABLE = TRUE
    /\ resume_parser = ResumeParser(None)
    /\ hashseed \in HashOrders
    /\ utcnow = Clock[1]

\* Mutant: the instance is built again after the call, without the spaCy model.
Thawed ==
    /\ UNCHANGED <<PDF_AVAILABLE, DOCX_AVAILABLE, hashseed, utcnow>>
    /\ resume_parser' = ResumeParser(None)

\* The module-level state never changes after import, and no time passes.
Frozen == UNCHANGED <<PDF_AVAILABLE, DOCX_AVAILABLE, resume_parser, hashseed, utcnow>>

(***************************************************************************)
(* ResumeParser._clean_text (resume_parser.py:175-180)                     *)
(***************************************************************************)
\* Mutant: every pair of whitespace characters becomes one space (one pass of
\* text.replace("  ", " ") over all whitespace), so longer runs survive.
CollapseWhitespacePairs(text) == re_sub(<<Ch(WHITESPACE), Ch(WHITESPACE)>>, <<" ">>, text, FALSE)

\* re.sub(r'\s+', ' ', text)
CollapseWhitespace(text) == re_sub(<<Rep(WHITESPACE, 1, None, TRUE)>>, <<" ">>, text, FALSE)

\* re.sub(r'\n+', '\n', text)
CollapseNewlines(text) == re_sub(<<Rep(NEWLINE, 1, None, TRUE)>>, <<"\n">>, text, FALSE)

_clean_text(text) == str_strip(CollapseNewlines(CollapseWhitespace(text)))

(***************************************************************************)
(* ResumeParser._extract_personal_info (resume_parser.py:182-210)          *)
(***************************************************************************)
\* Whether any of the keywords occurs in the line, in any letter case.
AnyKeywordIn(keywords, line) ==
    \E k \in 1..Len(keywords) : str_in(keywords[k], str_lower(line))

NOT_A_NAME == <<<<"e", "m", "a", "i", "l">>, <<"p", "h", "o", "n", "e">>, <<"a", "d", "d", "r", "e", "s", "s">>, <<"l", "i", "n", "k", "e", "d", "i", "n">>>>

\* 2 to 4 words, alphabetic once periods are removed, one starting in upper case
NameWords(words) ==
    /\ 2 <= Len(words) /\ Len(words) <= 4
    /\ \A k \in 1..Len(words) : str_isalpha(str_remove(words[k], "."))
    /\ \E k \in 1..Len(words) : words[k][1] \in UpperSet

\* The test of resume_parser.py:191-195 on a stripped line.
IsName(line) ==
    /\ Len(line) > 0
    /\ ~AnyKeywordIn(NOT_A_NAME, line)
    /\ NameWords(str_split_ws(line))

\* The k-th line, stripped; None past the last line.
LineAt(lines, k) == IF k > Len(lines) THEN None ELSE Some(str_strip(lines[k]))

\* The first of the lines that passes for a name.
FirstName(lines) ==
    LineAt(lines, First(1, Len(lines), LAMBDA k : IsName(str_strip(lines[k]))))

\* doc.ents of self.nlp(text).  What the statistical model recognises is not in
\* the source; here it takes the first two capitalised alphabetic words in a row
\* for a PERSON and finds nothing else.
Capitalised(word) == str_isalpha(word) /\ word[1] \in UpperSet
PersonAt(words, k) ==
    IF k >= Len(words) THEN <<>>
    ELSE <<[text |-> words[k] \o <<" ">> \o words[k + 1], label_ |-> "PERSON"]>>
EntitiesOf(words) ==
    PersonAt(words, First(1, Len(words) - 1,
                          LAMBDA k : Capitalised(words[k]) /\ Capitalised(words[k + 1])))
nlp(text) == [ents |-> EntitiesOf(str_split_ws(text))]

\* The text of the first PERSON entity; None without one.
PersonIn(ents) ==
    IF \E k \in 1..Len(ents) : ents[k].label_ = "PERSON"
    THEN Some(ents[First(1, Len(ents), LAMBDA k : ents[k].label_ = "PERSON")].text)
    ELSE None

\* resume_parser.py:199-204
NameOrEntity(self, text, name) ==
    IF self.nlp # None /\ name = None THEN PersonIn(nlp(Prefix(text, 500)).ents) ELSE name

_extract_personal_info(self, text) ==
    [name |-> NameOrEntity(self, text, FirstName(Prefix(str_split(text, "\n"), 5))),
     extracted_from |-> "text_analysis"]

(***************************************************************************)
(* ResumeParser._extract_contact_info (resume_parser.py:212-243)           *)
(***************************************************************************)
\* r'\b[A-Za-z0-9._%+-]+@[A-Za-z0-9.-]+\.[A-Z|a-z]{2,}\b'
email_pattern ==
    <<WordBoundary,
      Rep(Class(AlphaSet \cup DigitSet \cup {".", "_", "%", "+", "-"}), 1, None, TRUE),
      Ch(Class({"@"})),
      Rep(Class(AlphaSet \cup DigitSet \cup {".", "-"}), 1, None, TRUE),
      Ch(Class({"."})),
      Rep(Class(AlphaSet \cup {"|"}), 2, None, TRUE),
      WordBoundary>>

\* [-.]?
SEPARATOR == Rep(Class({"-", "."}), 0, Some(1), TRUE)
\* \d{lo,hi}
Digits(lo, hi) == Rep(DIGIT, lo, Some(hi), TRUE)

phone_patterns ==
    << \* r'\+?1?[-.]?\(?\d{3}\)?[-.]?\d{3}[-.]?\d{4}'
       <<Maybe("+"), Maybe("1"), SEPARATOR, Maybe("("), Digits(3, 3), Maybe(")"),
         SEPARATOR, Digits(3, 3), SEPARATOR, Digits(4, 4)>>,
       \* r'\+?\d{1,3}[-.]?\(?\d{3,4}\)?[-.]?\d{3,4}[-.]?\d{3,4}'
       <<Maybe("+"), Digits(1, 3), SEPARATOR, Maybe("("), Digits(3, 4), Maybe(")"),
         SEPARATOR, Digits(3, 4), SEPARATOR, Digits(3, 4)>>,
       \* r'\(\d{3}\)\s?\d{3}-\d{4}'
       <<Ch(Class({"("})), Digits(3, 3), Ch(Class({")"})), Rep(WHITESPACE, 0, Some(1), TRUE),
         Digits(3, 3), Ch(Class({"-"})), Digits(4, 4)>> >>

\* r'linkedin\.com/in/([A-Za-z0-9-]+)'
linkedin_pattern ==
    Lit(<<"l", "i", "n", "k", "e", "d", "i", "n", ".", "c", "o", "m", "/", "i", "n", "/">>)
    \o Group(1, <<Rep(Class(AlphaSet \cup DigitSet \cup {"-"}), 1, None, TRUE)>>)

\* r'\b([A-Za-z\s]+),\s*([A-Za-z\s]{2,})\b'
location_pattern ==
    <<WordBoundary>>
    \o Group(1, <<Rep(Class(AlphaSet \cup SpaceSet), 1, None, TRUE)>>)
    \o <<Ch(Class({","})), Rep(WHITESPACE, 0, None, TRUE)>>
    \o Group(2, <<Rep(Class(AlphaSet \cup SpaceSet), 2, None, TRUE)>>)
    \o <<WordBoundary>>

\* The elements of a list as a set (a JSON array whose order says nothing).
Elements(xs) == {xs[k] : k \in 1..Len(xs)}

\* xs[0] if xs else None
FirstOrNone(xs) == IF xs # <<>> THEN Some(xs[1]) ELSE None

_extract_contact_info(self, text) ==
    [emails |-> Elements(findall(email_pattern, 0, text, FALSE)),
     phones |-> Elements(Concat([p \in 1..Len(phone_patterns) |->
                                    findall(phone_patterns[p], 0, text, FALSE)])),
     linkedin |-> FirstOrNone(findall(linkedin_pattern, 1, text, TRUE)),
     location |-> FirstOrNone(findall2(location_pattern, text, FALSE))]

(***************************************************************************)
(* ResumeParser._extract_skills (resume_parser.py:245-286)                 *)
(***************************************************************************)
programming_langs == <<<<"p", "y", "t", "h", "o", "n">>, <<"j", "a", "v", "a">>, <<"j", "a", "v", "a", "s", "c", "r", "i", "p", "t">>, <<"c", "+", "+">>, <<"p", "h", "p">>, <<"r", "u", "b", "y">>>>
frameworks == <<<<"r", "e", "a", "c", "t">>, <<"a", "n", "g", "u", "l", "a", "r">>, <<"d", "j", "a", "n", "g", "o">>, <<"f", "l", "a", "s", "k">>, <<"s", "p", "r", "i", "n", "g">>>>
databases == <<<<"m", "y", "s", "q", "l">>, <<"m", "o", "n", "g", "o", "d", "b">>, <<"p", "o", "s", "t", "g", "r", "e", "s", "q", "l">>, <<"r", "e", "d", "i", "s">>>>
cloud == <<<<"a", "w", "s">>, <<"a", "z", "u", "r", "e">>, <<"g", "c", "p">>, <<"d", "o", "c", "k", "e", "r">>, <<"k", "u", "b", "e", "r", "n", "e", "t", "e", "s">>>>

\* `x in xs` for a list
list_in(x, xs) == \E k \in 1..Len(xs) : xs[k] = x

_categorize_skill(skill) ==
    IF list_in(str_lower(skill), programming_langs) THEN "programming_language"
    ELSE IF list_in(str_lower(skill), frameworks) THEN "framework"
    ELSE IF list_in(str_lower(skill), databases) THEN "database"
    ELSE IF list_in(str_lower(skill), cloud) THEN "cloud_devops"
    ELSE "other"

\* The entry appended for a keyword found in the text (resume_parser.py:255-260).
SkillEntry(skill, text_lower) ==
    [skill |-> str_title(skill),
     mentions |-> str_count(str_lower(skill), text_lower),
     category |-> _categorize_skill(skill)]

\* The entries of the keywords at positions found, in that order.
Entries(keywords, found, text_lower) ==
    [j \in 1..Len(found) |-> SkillEntry(keywords[found[j]], text_lower)]

\* found_skills after the loop of resume_parser.py:252-260
FoundSkills(keywords, text_lower) ==
    Entries(keywords,
            SortedSeq({k \in 1..Len(keywords) : str_in(str_lower(keywords[k]), text_lower)}),
            text_lower)

\* Mutant: the entry goes before the entries of the same count, so that equal
\* counts end in reverse keyword order (an unstable sort).
InsertBeforeEqual(sorted, entry) ==
    LET p == Cardinality({j \in 1..Len(sorted) : sorted[j].mentions > entry.mentions})
    IN  SubSeq(sorted, 1, p) \o <<entry>> \o SubSeq(sorted, p + 1, Len(sorted))

\* One step of the stable sort by mentions, descending: the entry goes after
\* the entries of the same or a greater count.
Insert(sorted, entry) ==
    LET p == Cardinality({j \in 1..Len(sorted) : sorted[j].mentions >= entry.mentions})
    IN  SubSeq(sorted, 1, p) \o <<entry>> \o SubSeq(sorted, p + 1, Len(sorted))

\* found_skills.sort(key=lambda x: x["mentions"], reverse=True): the first n
\* entries sorted.
RECURSIVE Sorted(_, _)
Sorted(entries, n) == IF n = 0 THEN <<>> ELSE Insert(Sorted(entries, n - 1), entries[n])

\* Mutant: the whole sorted list is returned (no [:20]).
KeepAll(found_skills) ==
    [technical_skills |-> found_skills, total_skills_found |-> Len(found_skills)]

\* resume_parser.py:265-268
TopSkills(found_skills) ==
    [technical_skills |-> Prefix(found_skills, 20), total_skills_found |-> Len(found_skills)]

SortedSkills(found_skills) == Sorted(found_skills, Len(found_skills))

_extract_skills(self, text) ==
    TopSkills(SortedSkills(FoundSkills(self.skills_keywords, str_lower(text))))

(***************************************************************************)
(* ResumeParser._extract_education (resume_parser.py:288-324)              *)
(***************************************************************************)
DEGREES == <<<<"b", "a", "c", "h", "e", "l", "o", "r">>, <<"m", "a", "s", "t", "e", "r">>, <<"p", "h", "d">>, <<"d", "o", "c", "t", "o", "r", "a", "t", "e">>, <<"d", "i", "p", "l", "o", "m", "a">>, <<"b", ".", "t", "e", "c", "h">>,
             <<"m", ".", "t", "e", "c", "h">>, <<"b", ".", "s", "c">>, <<"m", ".", "s", "c">>, <<"m", "b", "a">>, <<"b", "c", "a">>, <<"m", "c", "a">>>>

\* r'(bachelor|master|...|mca).*?(?:in|of)\s+([\w\s]+)'
degree_pattern ==
    Group(1, <<AnyOf(DEGREES)>>)
    \o <<Rep(DOT, 0, None, FALSE), AnyOf(<<<<"i", "n">>, <<"o", "f">>>>), Rep(WHITESPACE, 1, None, TRUE)>>
    \o Group(2, <<Rep(Class(WordSet \cup SpaceSet), 1, None, TRUE)>>)

\* r'\b(19|20)\d{2}\b'
year_pattern ==
    <<WordBoundary>> \o Group(1, <<AnyOf(<<<<"1", "9">>, <<"2", "0">>>>)>>) \o <<Digits(2, 2), WordBoundary>>

university_keywords == <<<<"u", "n", "i", "v", "e", "r", "s", "i", "t", "y">>, <<"c", "o", "l", "l", "e", "g", "e">>, <<"i", "n", "s", "t", "i", "t", "u", "t", "e">>, <<"s", "c", "h", "o", "o", "l">>>>

\* resume_parser.py:298-303
Degrees(degree_matches) ==
    [k \in 1..Len(degree_matches) |->
        [degree |-> str_title(degree_matches[k][1]),
         field |-> str_title(str_strip(degree_matches[k][2])),
         type |-> "degree"]]

\* re.sub(r'\d{4}', '', line).strip() for a line with a university keyword; ""
\* stands for the other lines, which are not appended either.
CleanLine(line) ==
    IF AnyKeywordIn(university_keywords, line)
    THEN str_strip(re_sub(<<Digits(4, 4)>>, <<>>, line, FALSE))
    ELSE <<>>

\* resume_parser.py:313-318
Universities(lines) ==
    SelectSeq([k \in 1..Len(lines) |-> CleanLine(lines[k])], LAMBDA clean_line : Len(clean_line) > 5)

_extract_education(self, text) ==
    [degrees |-> Degrees(findall2(degree_pattern, text, TRUE)),
     institutions |-> Prefix(Universities(str_split(text, "\n")), 3),
     graduation_years |-> Elements(findall(year_pattern, 1, text, FALSE))]

(***************************************************************************)
(* ResumeParser._extract_experience (resume_parser.py:326-375)             *)
(***************************************************************************)
\* r'(\d+)\+?\s*(years?|yrs?)\s*of\s*experience'
exp_pattern ==
    Group(1, <<Rep(DIGIT, 1, None, TRUE)>>)
    \o <<Maybe("+"), Rep(WHITESPACE, 0, None, TRUE)>>
    \o Group(2, <<Alt(<<Lit(<<"y", "e", "a", "r">>) \o <<Maybe("s")>>, Lit(<<"y", "r">>) \o <<Maybe("s")>> >>)>>)
    \o <<Rep(WHITESPACE, 0, None, TRUE)>>
    \o Lit(<<"o", "f">>)
    \o <<Rep(WHITESPACE, 0, None, TRUE)>>
    \o Lit(<<"e", "x", "p", "e", "r", "i", "e", "n", "c", "e">>)

\* CPython's sys.int_info.default_max_str_digits: int() of a longer digit string
\* raises ValueError (CPython 3.11, and 3.7-3.10 since their September 2022 releases).
INT_MAX_STR_DIGITS == 4300

DigitValue(c) == CHOOSE v \in 0..9 : <<"0", "1", "2", "3", "4", "5", "6", "7", "8", "9">>[v + 1] = c

RECURSIVE DecimalValue(_)
DecimalValue(digits) ==
    IF digits = <<>> THEN 0
    ELSE 10 * DecimalValue(SubSeq(digits, 1, Len(digits) - 1)) + DigitValue(digits[Len(digits)])

\* int(match[0]) for a string of digits
int(digits) ==
    IF Len(digits) > INT_MAX_STR_DIGITS THEN Raise("ValueError", "int")
    ELSE Ok(DecimalValue(digits))

\* [int(match[0]) for match in exp_matches], or the first exception
Ints(strings) ==
    IF \A k \in 1..Len(strings) : int(strings[k]).ok
    THEN Ok([k \in 1..Len(strings) |-> int(strings[k]).value])
    ELSE int(strings[First(1, Len(strings), LAMBDA k : ~int(strings[k]).ok)])

\* Mutant: years inclusive at each threshold (<= for <).
DetermineLevelInclusive(years) ==
    IF years = None THEN "unknown"
    ELSE IF years[1] <= 2 THEN "entry_level"
    ELSE IF years[1] <= 5 THEN "junior"
    ELSE IF years[1] <= 10 THEN "mid_level"
    ELSE "senior"

_determine_experience_level(years) ==
    IF years = None THEN "unknown"
    ELSE IF years[1] < 2 THEN "entry_level"
    ELSE IF years[1] < 5 THEN "junior"
    ELSE IF years[1] < 10 THEN "mid_level"
    ELSE "senior"

ROLES == <<<<"e", "n", "g", "i", "n", "e", "e", "r">>, <<"d", "e", "v", "e", "l", "o", "p", "e", "r">>, <<"m", "a", "n", "a", "g", "e", "r">>, <<"a", "n", "a", "l", "y", "s", "t">>, <<"d", "e", "s", "i", "g", "n", "e", "r">>, <<"s", "p", "e", "c", "i", "a", "l", "i", "s", "t">>>>

\* f'\b{keyword}\s+(\w+\s*)*(?:engineer|developer|manager|analyst|designer|specialist)'
\* The literal is not a raw string: '\b' is the backspace character, while '\s' and
\* '\w' are not escapes of a string literal and reach re unchanged.
title_pattern(keyword) ==
    <<Ch(Class({BACKSPACE}))>>
    \o Lit(keyword)
    \o <<Rep(WHITESPACE, 1, None, TRUE), StarGroup(1, WORDCHAR, WHITESPACE), AnyOf(ROLES)>>

\* r'\bat\s+([A-Z][\w\s&.,]+(?:Inc|LLC|Corp|Ltd|Company|Co\.)?)'
company_pattern ==
    <<WordBoundary>>
    \o Lit(<<"a", "t">>)
    \o <<Rep(WHITESPACE, 1, None, TRUE)>>
    \o Group(1, <<Ch(Class(UpperSet)),
                  Rep(Class(WordSet \cup SpaceSet \cup {"&", ".", ","}), 1, None, TRUE),
                  Optional(<<AnyOf(<<<<"I", "n", "c">>, <<"L", "L", "C">>, <<"C", "o", "r", "p">>, <<"L", "t", "d">>, <<"C", "o", "m", "p", "a", "n", "y">>, <<"C", "o", ".">>>>)>>)>>)

\* The distinct elements of a list in order of first occurrence.
Firsts(xs, first) == [k \in 1..Len(first) |-> xs[first[k]]]
Distinct(xs) ==
    Firsts(xs, SortedSeq({i \in 1..Len(xs) : \A j \in 1..(i - 1) : xs[j] # xs[i]}))

Reversed(xs) == [k \in 1..Len(xs) |-> xs[Len(xs) + 1 - k]]

\* list(set(xs)): the distinct elements in the order of this process's hashing.
list_set(xs) == IF hashseed = "forward" THEN Distinct(xs) ELSE Reversed(Distinct(xs))

\* The titles of the matches of one keyword (resume_parser.py:346-348).
Titles(keyword, matches) ==
    [m \in 1..Len(matches) |-> str_title(keyword \o <<" ">> \o str_strip(matches[m]))]

\* job_titles after the loop of resume_parser.py:343-348
JobTitles(keywords, text) ==
    Concat([k \in 1..Len(keywords) |->
               Titles(keywords[k], findall(title_pattern(keywords[k]), 1, text, TRUE))])

\* resume_parser.py:341-362, for the total of resume_parser.py:335-339
ExperienceWith(self, text, total_experience) ==
    [total_years_experience |-> total_experience,
     job_titles |-> Elements(Prefix(list_set(JobTitles(self.experience_keywords, text)), 5)),
     companies |-> Elements(Prefix(list_set(findall(company_pattern, 1, text, FALSE)), 5)),
     experience_level |-> _determine_experience_level(total_experience)]

\* resume_parser.py:335-339: the greatest of the numbers, None without a match
TotalOf(self, text, years) ==
    IF ~years.ok THEN years
    ELSE Ok(ExperienceWith(self, text,
                IF years.value # <<>> THEN Some(Max(Elements(years.value))) ELSE None))

_extract_experience(self, text) == TotalOf(self, text, Ints(findall(exp_pattern, 1, text, TRUE)))

(***************************************************************************)
(* ResumeParser._extract_summary (resume_parser.py:377-395)                *)
(***************************************************************************)
summary_keywords == <<<<"s", "u", "m", "m", "a", "r", "y">>, <<"o", "b", "j", "e", "c", "t", "i", "v", "e">>, <<"p", "r", "o", "f", "i", "l", "e">>, <<"a", "b", "o", "u", "t">>>>

\* resume_parser.py:392-395
SummaryRecord(summary_text) ==
    [summary |-> summary_text,
     source |-> IF summary_text # None /\ summary_text # Some(<<>>) THEN "extracted"
                ELSE "not_found"]

\* resume_parser.py:385-390, for the index i of the first line with a keyword
SummaryAt(lines, i) ==
    IF i > Len(lines) THEN None
    ELSE Some(str_strip(str_join(<<"\n">>, Slice(lines, i + 1, IF i + 3 < Len(lines) THEN i + 3 ELSE Len(lines)))))

SummaryOf(lines) ==
    SummaryAt(lines, First(1, Len(lines), LAMBDA i : AnyKeywordIn(summary_keywords, lines[i])))

_extract_summary(self, text) == SummaryRecord(SummaryOf(str_split(text, "\n")))

(***************************************************************************)
(* ResumeParser._parse_text (resume_parser.py:156-173)                     *)
(***************************************************************************)
\* text[:1000] + "..." if len(text) > 1000 else text
RawText(text) == IF Len(text) > 1000 THEN SubSeq(text, 1, 1000) \o <<".", ".", ".">> ELSE text

\* The record of resume_parser.py:163-171.  Of the extractors only
\* _extract_experience can raise, and its exception leaves _parse_text.
Record(self, text, cleaned_text, experience) ==
    IF ~experience.ok THEN experience
    ELSE Ok([personal_info |-> _extract_personal_info(self, cleaned_text),
             contact_info |-> _extract_contact_info(self, cleaned_text),
             skills |-> _extract_skills(self, cleaned_text),
             education |-> _extract_education(self, cleaned_text),
             experience |-> experience.value,
             summary |-> _extract_summary(self, cleaned_text),
             raw_text |-> RawText(text)])

Cleaned(self, text, cleaned_text) ==
    Record(self, text, cleaned_text, _extract_experience(self, cleaned_text))

_parse_text(self, text) == Cleaned(self, text, _clean_text(text))


(***************************************************************************)
(* Uploaded files.  An UploadFile has a filename, the MIME type the client *)
(* declared and a body; of the body the model keeps what the decoders make *)
(* of it: the format the bytes are in, their number, and the text of the   *)
(* pages (PDF) or paragraphs (DOCX).  An operation on a file gives, with   *)
(* its result, io: the reads and decoder calls it made, in order.          *)
(***************************************************************************)
UploadFile(filename, content_type, format, size, parts) ==
    [filename |-> filename, content_type |-> content_type,
     body |-> [format |-> format, size |-> size, parts |-> parts]]

Returned(value, events) == [ok |-> TRUE, value |-> value, io |-> events]
Raised(exc, at, events) == [ok |-> FALSE, exc |-> exc, at |-> at, io |-> events]

\* The result r of a step that touches no file, after the events so far.
After(events, r) ==
    IF r.ok THEN Returned(r.value, events) ELSE Raised(r.exc, r.at, events)

\* text += page_text + "\n" for the pages that have text
PagesText(parts) ==
    Concat([k \in 1..Len(parts) |-> IF parts[k] # <<>> THEN parts[k] \o <<"\n">> ELSE <<>>])

\* text += paragraph.text + "\n" for every paragraph
ParagraphsText(parts) == Concat([k \in 1..Len(parts) |-> parts[k] \o <<"\n">>])

\* resume_parser.py:118-136.  pdfplumber.open raises on bytes that are not a PDF.
_extract_text_from_pdf(self, file) ==
    IF ~PDF_AVAILABLE THEN Raised("ImportError", "_extract_text_from_pdf", <<>>)
    ELSE IF file.body.format # "pdf"
    THEN Raised("PDFSyntaxError", "pdfplumber.open", <<"read", "pdfplumber.open">>)
    ELSE Returned(str_strip(PagesText(file.body.parts)), <<"read", "pdfplumber.open">>)

\* resume_parser.py:138-154.  docx.Document raises on bytes that are not a DOCX
\* package, a legacy .doc file included.
_extract_text_from_docx(self, file) ==
    IF ~DOCX_AVAILABLE THEN Raised("ImportError", "_extract_text_from_docx", <<>>)
    ELSE IF file.body.format # "docx"
    THEN Raised("PackageNotFoundError", "docx.Document", <<"read", "docx.Document">>)
    ELSE Returned(str_strip(ParagraphsText(file.body.parts)), <<"read", "docx.Document">>)

PDF == "application/pdf"
DOCX == "application/vnd.openxmlformats-officedocument.wordprocessingml.document"
MSWORD == "application/msword"

\* resume_parser.py:90-98
ExtractText(self, file) ==
    IF file.content_type = PDF THEN _extract_text_from_pdf(self, file)
    ELSE IF file.content_type \in {DOCX, MSWORD} THEN _extract_text_from_docx(self, file)
    ELSE Raised(<<"ValueError", "Unsupported file type", file.content_type>>, "parse_resume_file", <<>>)

\* resume_parser.py:103-112
WithMetadata(file, text, parsed_data) ==
    [personal_info |-> parsed_data.personal_info,
     contact_info |-> parsed_data.contact_info,
     skills |-> parsed_data.skills,
     education |-> parsed_data.education,
     experience |-> parsed_data.experience,
     summary |-> parsed_data.summary,
     raw_text |-> parsed_data.raw_text,
     metadata |-> [filename |-> file.filename,
                   file_type |-> file.content_type,
                   parsed_at |-> utcnow,
                   text_length |-> Len(text),
                   parser_version |-> "1.0.0"]]

\* resume_parser.py:100-112, for the outcome of _parse_text
Assembled(file, text, events, parsed) ==
    IF ~parsed.ok THEN Raised(parsed.exc, parsed.at, events)
    ELSE Returned(WithMetadata(file, text, parsed.value), events)

\* resume_parser.py:100-116, for the outcome of the text extractor: an exception
\* is logged and raised again.
Parsed(self, file, extracted) ==
    IF ~extracted.ok THEN extracted
    ELSE Assembled(file, extracted.value, extracted.io, _parse_text(self, extracted.value))

parse_resume_file(self, file) == Parsed(self, file, ExtractText(self, file))

(***************************************************************************)
(* The endpoints of main.py.  A response is a status code and a content;   *)
(* an HTTPException becomes the response FastAPI makes of it.  io events   *)
(* are <<index of the file in the request, operation>>.                    *)
(***************************************************************************)
Response(status_code, content, events) ==
    [status_code |-> status_code, content |-> content, io |-> events]

HTTPException(status_code, detail, events) ==
    Response(status_code, [detail |-> detail], events)

Tagged(k, events) == [j \in 1..Len(events) |-> <<k, events[j]>>]

\* main.py:34-42
root == Response(200, [message |-> "Resume Parser API is running", version |-> "1.0.0",
                       status |-> "healthy", supported_formats |-> <<"PDF", "DOC", "DOCX">>],
                 <<>>)

\* main.py:44-51
health_check == Response(200, [status |-> "healthy", service |-> "resume-parser-api",
                               version |-> "1.0.0"], <<>>)

allowed_types == <<PDF, DOCX, MSWORD>>

\* 10MB
MAX_FILE_SIZE == 10 * 1024 * 1024

\* main.py:87-111, for the outcome of parse_resume_file
ParseResponse(file, parsed, events) ==
    IF parsed.ok
    THEN Response(200, [status |-> "success", message |-> "Resume parsed successfully",
                        filename |-> file.filename, file_size |-> file.body.size,
                        data |-> parsed.value],
                  events \o Tagged(1, parsed.io))
    ELSE Response(500, [status |-> "error",
                        message |-> "Internal server error while parsing resume",
                        detail |-> parsed.exc],
                  events \o Tagged(1, parsed.io))

\* Mutant: the size is validated before the type, so the file is read first.
ParseResumeSizeFirst(file) ==
    IF file.body.size > MAX_FILE_SIZE
    THEN HTTPException(413, "File too large", <<<<1, "read">>>>)
    ELSE IF ~list_in(file.content_type, allowed_types)
    THEN HTTPException(400, <<"Unsupported file type", file.content_type>>, <<<<1, "read">>>>)
    ELSE ParseResponse(file, parse_resume_file(resume_parser, file),
                       <<<<1, "read">>, <<1, "seek">>>>)

\* main.py:53-111
parse_resume(file) ==
    IF ~list_in(file.content_type, allowed_types)
    THEN HTTPException(400, <<"Unsupported file type", file.content_type>>, <<>>)
    ELSE IF file.body.size > MAX_FILE_SIZE
    THEN HTTPException(413, "File too large", <<<<1, "read">>>>)
    ELSE ParseResponse(file, parse_resume_file(resume_parser, file),
                       <<<<1, "read">>, <<1, "seek">>>>)

\* main.py:146-161, for the outcome of parse_resume_file on the k-th file
Entry(file, k, parsed) ==
    IF parsed.ok
    THEN [entry |-> [filename |-> file.filename, status |-> "success", data |-> parsed.value],
          io |-> Tagged(k, parsed.io)]
    ELSE [entry |-> [filename |-> file.filename, status |-> "error", message |-> parsed.exc],
          io |-> Tagged(k, parsed.io)]

\* main.py:131-161: one round of the loop, for the k-th file
Processed(file, k) ==
    IF ~list_in(file.content_type, allowed_types)
    THEN [entry |-> [filename |-> file.filename, status |-> "error",
                     message |-> <<"Unsupported file type", file.content_type>>],
          io |-> <<>>]
    ELSE Entry(file, k, parse_resume_file(resume_parser, file))

\* main.py:163-170, for the rounds of the loop
BatchResponse(files, rounds) ==
    Response(200, [status |-> "success", message |-> <<"Processed", Len(files), "files">>,
                   results |-> [k \in 1..Len(rounds) |-> rounds[k].entry]],
             Concat([k \in 1..Len(rounds) |-> rounds[k].io]))

\* The most files a batch may have (main.py:122).
MAX_BATCH == 10

\* main.py:113-183
parse_resume_batch(files) ==
    IF Len(files) > MAX_BATCH
    THEN HTTPException(400, "Maximum 10 files allowed per batch", <<>>)
    ELSE BatchResponse(files, [k \in 1..Len(files) |-> Processed(files[k], k)])


(***************************************************************************)
(* Calls of single methods.  request is the call, response its result.     *)
(***************************************************************************)
\* All strings over alphabet of length at most n.
Strings(alphabet, n) == UNION {[1..k -> alphabet] : k \in 0..n}

\* The sequences of at most n elements of S.
SeqsUpTo(S, n) == UNION {[1..k -> S] : k \in 0..n}

\* The text of a document: its phrases, one per line.
TextOf(phrases, doc) == str_join(<<"\n">>, [k \in 1..Len(doc) |-> phrases[doc[k]].text])

Call(fn) == pc = "call" /\ request.fn = fn
Return(result) ==
    /\ response' = result
    /\ pc' = "return"
    /\ UNCHANGED <<request, io>>
    /\ Frozen

(***************************************************************************)
(* _clean_text applied to a text, and again to its own output.             *)
(***************************************************************************)
MaxCleanLen == 5
CleanAlphabet == {"a", " ", "\n", "\t"}

InitClean ==
    /\ Installed
    /\ pc = "call"
    /\ \E text \in Strings(CleanAlphabet, MaxCleanLen) :
          request = [fn |-> "_clean_text", text |-> text]
    /\ response = <<>>
    /\ io = <<>>

CleanText ==
    /\ Call("_clean_text")
    /\ Return(<<_clean_text(request.text)>>)

CleanAgain ==
    /\ pc = "return"
    /\ response' = Append(response, _clean_text(response[1]))
    /\ pc' = "again"
    /\ UNCHANGED <<request, io>>
    /\ Frozen

NextClean == CleanText \/ CleanAgain

SpecClean == InitClean /\ [][NextClean]_vars

\* C6: normalization is idempotent, normalize(normalize(s)) = normalize(s) for every
\* s, and the empty string normalizes to the empty string.
CleanIdempotent ==
    /\ pc = "again" => response[2] = response[1]
    /\ pc # "call" /\ request.text = <<>> => response[1] = <<>>

\* A text with a newline inside a run of several whitespace characters was
\* normalized twice, and the first pass changed it.
CleanWitness ==
    /\ pc = "again"
    /\ response[1] # request.text
    /\ \E i \in 1..(Len(request.text) - 1) :
          request.text[i] = "\n" /\ request.text[i + 1] \in SpaceSet
    /\ Len(response[1]) >= 3

(***************************************************************************)
(* The skills extractor on its own, on normalized texts made of phrases.   *)
(***************************************************************************)
SkillPhrases ==
    [stack |-> [text |-> <<"P", "y", "t", "h", "o", "n", " ", "J", "a", "v", "a", " ", "T", "y", "p", "e", "S", "c", "r", "i", "p", "t", " ", "C", "+", "+", " ", "P", "H", "P", " ", "R", "u", "b", "y", " ", "S", "w", "i", "f", "t", " ", "K", "o", "t", "l", "i", "n", " ", "S", "c", "a", "l", "a", " ", "M", "a", "t", "l", "a", "b", " ", "S", "Q", "L", " ", "H", "T", "M", "L", " ", "C", "S", "S", " ", "S", "a", "s", "s", " ", "R", "e", "a", "c", "t", " ", "A", "n", "g", "u", "l", "a", "r", " ", "V", "u", "e", " ", "D", "j", "a", "n", "g", "o", " ", "F", "l", "a", "s", "k", " ", "M", "y", "S", "Q", "L", " ", "R", "e", "d", "i", "s", " ", "A", "W", "S", " ", "D", "o", "c", "k", "e", "r", " ", "G", "i", "t", " ", "L", "i", "n", "u", "x">>],
     python |-> [text |-> <<"P", "y", "t", "h", "o", "n", ",", " ", "p", "y", "t", "h", "o", "n", " ", "a", "n", "d", " ", "J", "a", "v", "a">>],
     mysql |-> [text |-> <<"M", "y", "S", "Q", "L">>],
     cloud |-> [text |-> <<"A", "W", "S", ",", " ", "a", "w", "s", ",", " ", "A", "z", "u", "r", "e">>],
     react |-> [text |-> <<"V", "u", "e", " ", "a", "n", "d", " ", "R", "e", "a", "c", "t">>],
     hello |-> [text |-> <<"h", "e", "l", "l", "o">>]]

MaxSkillPhrases == 2

InitSkills ==
    /\ Installed
    /\ pc = "call"
    /\ \E doc \in SeqsUpTo(DOMAIN SkillPhrases, MaxSkillPhrases) :
          request = [fn |-> "_extract_skills", doc |-> doc,
                     text |-> _clean_text(TextOf(SkillPhrases, doc))]
    /\ response = <<>>
    /\ io = <<>>

ExtractSkills ==
    /\ Call("_extract_skills")
    /\ Return(_extract_skills(resume_parser, request.text))

NextSkills == ExtractSkills

SpecSkills == InitSkills /\ [][NextSkills]_vars

\* The positions in the keyword list of the keywords the text mentions, and the
\* number of times it mentions each keyword.
Matched(keywords, text_lower) ==
    {k \in 1..Len(keywords) : str_in(str_lower(keywords[k]), text_lower)}
Mentions(keywords, text_lower) ==
    [k \in 1..Len(keywords) |-> str_count(str_lower(keywords[k]), text_lower)]

\* The place of keyword k in the matched keywords stable-sorted by mentions,
\* descending: after the keywords with more mentions and the earlier keywords
\* with as many.
Place(k, matched, mentions) ==
    1 + Cardinality({j \in matched : \/ mentions[j] > mentions[k]
                                     \/ mentions[j] = mentions[k] /\ j < k})

SkillsAsClaimed(skills, keywords, matched, mentions) ==
    /\ skills.total_skills_found = Cardinality(matched)
    /\ Len(skills.technical_skills) = IF Cardinality(matched) < 20 THEN Cardinality(matched) ELSE 20
    /\ \A k \in matched :
          Place(k, matched, mentions) <= 20 =>
             /\ skills.technical_skills[Place(k, matched, mentions)].skill = str_title(keywords[k])
             /\ skills.technical_skills[Place(k, matched, mentions)].mentions = mentions[k]
    /\ \A j \in 1..(Len(skills.technical_skills) - 1) :
          skills.technical_skills[j].mentions >= skills.technical_skills[j + 1].mentions
    /\ Len(skills.technical_skills) <= 20
    /\ skills.total_skills_found >= Len(skills.technical_skills)
    /\ matched = {} => skills.technical_skills = <<>> /\ skills.total_skills_found = 0

\* C4: technical_skills is the first 20 entries of the matched keywords stable-sorted
\* by mention count descending, ties in keyword-list order, and total_skills_found
\* is the number of matched keywords before truncation; so technical_skills is
\* sorted descending, has at most 20 entries, total_skills_found is at least its
\* length, and both are empty and 0 when no keyword matches.
SkillsRanked ==
    pc = "return" /\ request.fn = "_extract_skills" =>
        \A matched \in {Matched(resume_parser.skills_keywords, str_lower(request.text))},
           mentions \in {Mentions(resume_parser.skills_keywords, str_lower(request.text))} :
            SkillsAsClaimed(response, resume_parser.skills_keywords, matched, mentions)

\* More than 20 keywords matched, the list was cut to 20, and it has both a tie
\* and a drop in mentions.
SkillsWitness ==
    /\ pc = "return"
    /\ request.fn = "_extract_skills"
    /\ response.total_skills_found > 20
    /\ Len(response.technical_skills) = 20
    /\ \E j \in 1..19 :
          response.technical_skills[j].mentions = response.technical_skills[j + 1].mentions
    /\ \E j \in 1..19 :
          response.technical_skills[j].mentions > response.technical_skills[j + 1].mentions

(***************************************************************************)
(* The experience extractor on its own.  A text is made of phrases, one    *)
(* per line, and is normalized before the extractor sees it, as in         *)
(* _parse_text.  Each phrase records what it says: digits, the number N of *)
(* an "<N> years of experience" phrase, and keyword, the experience        *)
(* keyword of a "<keyword> <filler words> <role>" phrase.                  *)
(***************************************************************************)
Phrase(text, digits, keyword) == [text |-> text, digits |-> digits, keyword |-> keyword]

\* A number of one digit more than int() accepts.
LongNumber == [k \in 1..(INT_MAX_STR_DIGITS + 1) |-> "9"]

ExpPhrases ==
    [years1 |-> Phrase(<<"1", " ", "y", "e", "a", "r", " ", "o", "f", " ", "e", "x", "p", "e", "r", "i", "e", "n", "c", "e">>, Some(<<"1">>), None),
     years2 |-> Phrase(<<"2", "+", " ", "y", "e", "a", "r", "s", " ", "o", "f", " ", "e", "x", "p", "e", "r", "i", "e", "n", "c", "e">>, Some(<<"2">>), None),
     years4 |-> Phrase(<<"4", " ", "Y", "R", "S", " ", "O", "F", " ", "E", "X", "P", "E", "R", "I", "E", "N", "C", "E">>, Some(<<"4">>), None),
     years5 |-> Phrase(<<"5", " ", "y", "r", "s", " ", "o", "f", " ", "e", "x", "p", "e", "r", "i", "e", "n", "c", "e">>, Some(<<"5">>), None),
     years9 |-> Phrase(<<"9", " ", " ", "Y", "e", "a", "r", "s", " ", " ", "O", "f", " ", " ", "E", "x", "p", "e", "r", "i", "e", "n", "c", "e", " ", "a", "t", " ", "A", "c", "m", "e", " ", "C", "o", "r", "p">>, Some(<<"9">>), None),
     years10 |-> Phrase(<<"1", "0", "+", " ", "y", "e", "a", "r", "s", " ", "o", "f", " ", "e", "x", "p", "e", "r", "i", "e", "n", "c", "e">>, Some(<<"1", "0">>), None),
     senior |-> Phrase(<<"s", "e", "n", "i", "o", "r", " ", "s", "o", "f", "t", "w", "a", "r", "e", " ", "e", "n", "g", "i", "n", "e", "e", "r">>, None, Some(<<"s", "e", "n", "i", "o", "r">>)),
     lead |-> Phrase(<<BACKSPACE, "l", "e", "a", "d", " ", "d", "a", "t", "a", " ", "a", "n", "a", "l", "y", "s", "t">>, None, Some(<<"l", "e", "a", "d">>)),
     yearsLong |-> Phrase(LongNumber \o <<" ", "y", "e", "a", "r", "s", " ", "o", "f", " ", "e", "x", "p", "e", "r", "i", "e", "n", "c", "e">>, Some(LongNumber), None)]

MaxExpPhrases == 2

\* The documents: up to MaxExpPhrases phrases with numbers int() accepts, and the
\* long number alone and after each of the other phrases.
ExpDocs ==
    SeqsUpTo(DOMAIN ExpPhrases \ {"yearsLong"}, MaxExpPhrases)
    \cup {<<"yearsLong">>}
    \cup {<<phrase, "yearsLong">> : phrase \in DOMAIN ExpPhrases \ {"yearsLong"}}

InitExperience ==
    /\ Installed
    /\ pc = "call"
    /\ \E doc \in ExpDocs :
          request = [fn |-> "_extract_experience", doc |-> doc,
                     text |-> _clean_text(TextOf(ExpPhrases, doc))]
    /\ response = <<>>
    /\ io = <<>>

ExtractExperience ==
    /\ Call("_extract_experience")
    /\ Return(_extract_experience(resume_parser, request.text))

NextExperience == ExtractExperience

SpecExperience == InitExperience /\ [][NextExperience]_vars

\* The level the thresholds give to a number of years.
LevelOf(years) ==
    IF years = None THEN "unknown"
    ELSE IF years[1] \in 0..1 THEN "entry_level"
    ELSE IF years[1] \in 2..4 THEN "junior"
    ELSE IF years[1] \in 5..9 THEN "mid_level"
    ELSE "senior"

\* C5: in every record the experience extractor returns, experience_level is the
\* level the thresholds give to total_years_experience of the same record: null is
\* "unknown", below 2 "entry_level", 2 to 4 "junior", 5 to 9 "mid_level", 10 or
\* more "senior"; nothing else influences it.
LevelFromYears ==
    pc = "return" /\ request.fn = "_extract_experience" /\ response.ok =>
        response.value.experience_level = LevelOf(response.value.total_years_experience)

LevelWitness ==
    /\ pc = "return"
    /\ request.fn = "_extract_experience"
    /\ response.ok
    /\ response.value.total_years_experience = Some(2)
    /\ response.value.experience_level = "junior"
    /\ response.value.job_titles # {}

\* The positions of a document's "<N> years of experience" phrases and of its
\* "<keyword> <filler words> <role>" phrases.
YearPhrases(doc) == {k \in 1..Len(doc) : ExpPhrases[doc[k]].digits # None}
TitlePhrases(doc) == {k \in 1..Len(doc) : ExpPhrases[doc[k]].keyword # None}

\* C7: when the text contains phrases "<N> years of experience" (also "<N>+",
\* "year" or "yr", singular or plural, any letter case), total_years_experience is
\* the greatest N, whatever the order of the phrases; it is null when there is none.
TotalIsMaximum ==
    pc = "return" /\ request.fn = "_extract_experience" =>
        /\ response.ok
        /\ response.value.total_years_experience =
              IF YearPhrases(request.doc) = {} THEN None
              ELSE Some(Max({DecimalValue(ExpPhrases[request.doc[k]].digits[1]) :
                               k \in YearPhrases(request.doc)}))

\* Whether the title is built from the keyword of the phrase.
BuiltFrom(title, keyword) == Prefix(title, Len(keyword)) = str_title(keyword)

\* C10: whenever the normalized text contains an experience keyword followed by
\* zero or more filler words and a role, job_titles contains a title built from
\* that keyword; job_titles is empty only when the text has no such phrase.
TitlesFound ==
    pc = "return" /\ request.fn = "_extract_experience" /\ response.ok =>
        /\ \A k \in TitlePhrases(request.doc) :
              \E title \in response.value.job_titles :
                  BuiltFrom(title, ExpPhrases[request.doc[k]].keyword[1])
        /\ response.value.job_titles = {} => TitlePhrases(request.doc) = {}

(***************************************************************************)
(* The pipeline of _parse_text (normalize, then the field extractors) on   *)
(* documents given as their lines.                                         *)
(***************************************************************************)
Lines ==
    [name |-> [text |-> <<"J", "o", "h", "n", " ", "S", "m", "i", "t", "h">>],
     role |-> [text |-> <<"S", "o", "f", "t", "w", "a", "r", "e", " ", "E", "n", "g", "i", "n", "e", "e", "r">>],
     summary |-> [text |-> <<"S", "u", "m", "m", "a", "r", "y">>],
     builds |-> [text |-> <<"B", "u", "i", "l", "d", "s", " ", "t", "h", "i", "n", "g", "s">>],
     email |-> [text |-> <<"E", "m", "a", "i", "l", ":", " ", "j", "@", "x", ".", "i", "o">>],
     blank |-> [text |-> <<>>]]

MaxLines == 2

InitParseText ==
    /\ Installed
    /\ pc = "call"
    /\ \E doc \in SeqsUpTo(DOMAIN Lines, MaxLines) :
          request = [fn |-> "_parse_text", doc |-> doc,
                     lines |-> [k \in 1..Len(doc) |-> Lines[doc[k]].text],
                     text |-> TextOf(Lines, doc)]
    /\ response = <<>>
    /\ io = <<>>

ParseText ==
    /\ Call("_parse_text")
    /\ Return(_parse_text(resume_parser, request.text))

NextParseText == ParseText

SpecParseText == InitParseText /\ [][NextParseText]_vars

Min(S) == CHOOSE x \in S : \A y \in S : x <= y

\* The lines of the document that contain a summary keyword, and the text of the
\* up to 3 lines that follow line k.
KeywordLines(lines) == {k \in 1..Len(lines) : AnyKeywordIn(summary_keywords, lines[k])}
Following(lines, k) ==
    str_strip(str_join(<<"\n">>, Slice(lines, k + 1, IF k + 3 < Len(lines) THEN k + 3 ELSE Len(lines))))

SummaryAsClaimed(summary, lines, hits) ==
    /\ hits # {} /\ Following(lines, Min(hits)) # <<>> =>
          /\ summary.summary = Some(Following(lines, Min(hits)))
          /\ summary.source = "extracted"
    /\ hits = {} => summary.summary = None /\ summary.source = "not_found"
    /\ summary.source = "not_found" => hits = {}

\* C8: when a line of the document contains "summary", "objective", "profile" or
\* "about" and non-empty lines follow it, the record's summary is the up to 3 lines
\* after the first such line, joined with newlines and trimmed, with source
\* "extracted"; the source is "not_found", with a null summary, only when no line
\* contains a keyword.
SummaryFollows ==
    pc = "return" /\ request.fn = "_parse_text" /\ response.ok =>
        SummaryAsClaimed(response.value.summary, request.lines, KeywordLines(request.lines))

\* Whether a line passes for a name: no contact word, 2 to 4 tokens, alphabetic
\* once periods are removed, one of them starting in upper case.
Qualifies(line) ==
    /\ ~AnyKeywordIn(NOT_A_NAME, line)
    /\ Len(str_split_ws(line)) \in 2..4
    /\ \A k \in 1..Len(str_split_ws(line)) : str_isalpha(str_remove(str_split_ws(line)[k], "."))
    /\ \E k \in 1..Len(str_split_ws(line)) : str_split_ws(line)[k][1] \in UpperSet

NameAsClaimed(name, lines, first) ==
    IF first > Len(lines) THEN name = None ELSE name = Some(str_strip(lines[first]))

\* C9: with no entity recognizer loaded, the record's name is the first of the
\* document's first 5 lines that qualifies as a name, and it is null only when none
\* of them qualifies.
NameIsFirstLine ==
    pc = "return" /\ request.fn = "_parse_text" /\ response.ok /\ resume_parser.nlp = None =>
        NameAsClaimed(response.value.personal_info.name, Prefix(request.lines, 5),
                      First(1, Len(Prefix(request.lines, 5)),
                            LAMBDA k : Qualifies(Prefix(request.lines, 5)[k])))


(***************************************************************************)
(* The service: requests to the endpoints of main.py, and direct calls of  *)
(* resume_parser.parse_resume_file.                                        *)
(***************************************************************************)
resume_pdf == UploadFile("resume.pdf", PDF, "pdf", 2048, <<<<"J", "a", "n", "e", " ", "R", "o", "e">>, <<"5", " ", "y", "e", "a", "r", "s", " ", "o", "f", " ", "e", "x", "p", "e", "r", "i", "e", "n", "c", "e">>>>)
resume_docx == UploadFile("resume.docx", DOCX, "docx", 4096, <<<<"S", "u", "m", "m", "a", "r", "y">>, <<"P", "y", "t", "h", "o", "n", " ", "d", "e", "v", "e", "l", "o", "p", "e", "r">>>>)
old_doc == UploadFile("old.doc", MSWORD, "doc", 4096, <<<<"J", "a", "n", "e", " ", "R", "o", "e">>>>)
broken_pdf == UploadFile("broken.pdf", PDF, "damaged", 512, <<>>)
photo_png == UploadFile("photo.png", "image/png", "png", 1024, <<>>)
notes_txt == UploadFile("notes.txt", "text/plain", "pdf", 2048, <<<<"J", "a", "n", "e", " ", "R", "o", "e">>>>)
long_pdf == UploadFile("long.pdf", PDF, "pdf", 8192, <<LongNumber \o <<" ", "y", "e", "a", "r", "s", " ", "o", "f", " ", "e", "x", "p", "e", "r", "i", "e", "n", "c", "e">>>>)
big_pdf == UploadFile("big.pdf", PDF, "pdf", MAX_FILE_SIZE + 1, <<<<"J", "a", "n", "e", " ", "R", "o", "e">>>>)

Files == {resume_pdf, resume_docx, old_doc, broken_pdf, photo_png, notes_txt, long_pdf, big_pdf}
BatchFiles == {resume_pdf, broken_pdf, photo_png}

\* The most files in a batch that is processed.
MaxBatch == 2

\* A batch of one file more than the endpoint accepts.
TooMany == [k \in 1..(MAX_BATCH + 1) |-> resume_pdf]

\* The batches: up to MaxBatch of BatchFiles, the file with the long number
\* between two resumes, and the batch that is too large.
Batches ==
    SeqsUpTo(BatchFiles, MaxBatch) \cup {<<resume_pdf, long_pdf, resume_docx>>, TooMany}

Request(endpoint, files) == [endpoint |-> endpoint, files |-> files]

Requests ==
    {Request("/", <<>>), Request("/health", <<>>)}
    \cup {Request("/parse-resume", <<file>>) : file \in Files}
    \cup {Request("/parse-resume-batch", files) : files \in Batches}
    \cup {Request("parse_resume_file", <<file>>) : file \in Files}

Init ==
    /\ Imported
    /\ pc = "idle"
    /\ request = None
    /\ response = None
    /\ io = <<>>

Receive(req) ==
    /\ pc = "idle"
    /\ request' = req
    /\ pc' = "received"
    /\ UNCHANGED <<response, io>>
    /\ Frozen

Received(endpoint) == pc = "received" /\ request.endpoint = endpoint

Respond(result) ==
    /\ response' = [status_code |-> result.status_code, content |-> result.content]
    /\ io' = result.io
    /\ pc' = "responded"
    /\ UNCHANGED request
    /\ Frozen

Root == Received("/") /\ Respond(root)

HealthCheck == Received("/health") /\ Respond(health_check)

ParseResume == Received("/parse-resume") /\ Respond(parse_resume(request.files[1]))

ParseResumeBatch == Received("/parse-resume-batch") /\ Respond(parse_resume_batch(request.files))

Finish(result) ==
    /\ response' = IF result.ok THEN Ok(result.value) ELSE Raise(result.exc, result.at)
    /\ io' = Tagged(1, result.io)
    /\ pc' = "responded"
    /\ UNCHANGED request
    /\ Frozen

ParseResumeFile ==
    /\ Received("parse_resume_file")
    /\ Finish(parse_resume_file(resume_parser, request.files[1]))

\* The response has gone to the client, and nothing of the request is kept.
Send ==
    /\ pc = "responded"
    /\ request' = None
    /\ response' = None
    /\ io' = <<>>
    /\ pc' = "idle"
    /\ Frozen

\* The clock moves on.
Tick ==
    /\ \E k \in 1..(Len(Clock) - 1) : utcnow = Clock[k] /\ utcnow' = Clock[k + 1]
    /\ UNCHANGED <<PDF_AVAILABLE, DOCX_AVAILABLE, resume_parser, hashseed, pc, request, response, io>>

Next ==
    \/ \E req \in Requests : Receive(req)
    \/ Root
    \/ HealthCheck
    \/ ParseResume
    \/ ParseResumeBatch
    \/ ParseResumeFile
    \/ Send
    \/ Tick

Spec == Init /\ [][Next]_vars

Responded(endpoint) == pc = "responded" /\ request.endpoint = endpoint

Unsupported(file) == file.content_type \notin {PDF, DOCX, MSWORD}

\* The operations made on the k-th file of the request.
OperationsOn(k) == {j \in 1..Len(io) : io[j][1] = k}

\* C2: a file of any other declared MIME type than the three supported ones always
\* ends in an unsupported-format failure, and no read of its bytes and no call of
\* the PDF or the DOCX decoder comes before it.
UnsupportedNeverDecoded ==
    /\ Responded("/parse-resume") /\ Unsupported(request.files[1]) =>
          /\ response.status_code = 400
          /\ response.content.detail = <<"Unsupported file type", request.files[1].content_type>>
          /\ io = <<>>
    /\ Responded("/parse-resume-batch") /\ Len(request.files) <= 10 =>
          \A k \in 1..Len(request.files) :
              Unsupported(request.files[k]) =>
                 /\ response.content.results[k].status = "error"
                 /\ response.content.results[k].message = <<"Unsupported file type", request.files[k].content_type>>
                 /\ OperationsOn(k) = {}
    /\ Responded("parse_resume_file") /\ Unsupported(request.files[1]) =>
          /\ ~response.ok
          /\ response.exc = <<"ValueError", "Unsupported file type", request.files[1].content_type>>
          /\ response.at = "parse_resume_file"
          /\ io = <<>>

\* A batch whose first file is of an unsupported type and whose second file was
\* read and decoded.
UnsupportedWitness ==
    /\ Responded("/parse-resume-batch")
    /\ Len(request.files) = 2
    /\ Unsupported(request.files[1])
    /\ response.content.results[1].status = "error"
    /\ response.content.results[2].status = "success"
    /\ OperationsOn(2) # {}

\* The places where the text extractors fail.
EXTRACTOR == {"_extract_text_from_pdf", "_extract_text_from_docx", "pdfplumber.open",
              "docx.Document"}

FIELDS == {"personal_info", "contact_info", "skills", "education", "experience", "summary",
           "raw_text", "metadata"}

\* C3: for a supported MIME type parse_resume_file either fails with the error of
\* the text extractor (decoder unavailable or corrupt document), or returns a
\* record with all eight fields; no field extractor raises.
AllOrNothing ==
    Responded("parse_resume_file") /\ ~Unsupported(request.files[1]) =>
        \/ ~response.ok /\ response.at \in EXTRACTOR
        \/ response.ok /\ DOMAIN response.value = FIELDS

\* Whether the file fails in one of the ways of the claim: unsupported MIME type,
\* missing decoder, or corrupt document.
MissingDecoder(file) ==
    \/ file.content_type = PDF /\ ~PDF_AVAILABLE
    \/ file.content_type \in {DOCX, MSWORD} /\ ~DOCX_AVAILABLE
Corrupt(file) ==
    \/ file.content_type = PDF /\ file.body.format # "pdf"
    \/ file.content_type \in {DOCX, MSWORD} /\ file.body.format # "docx"
Fails(file) == Unsupported(file) \/ MissingDecoder(file) \/ Corrupt(file)

EntryAsClaimed(entry, file) ==
    /\ entry.filename = file.filename
    /\ Fails(file) => entry.status = "error"
    /\ ~Fails(file) =>
          /\ entry.status = "success"
          /\ entry.data = parse_resume_file(resume_parser, file).value

\* C1: a batch of at most 10 files gets one entry per file, in input order; the
\* entry of a file that fails (unsupported MIME type, missing decoder, corrupt
\* document) has status "error", and the entry of every other file has status
\* "success" with the data the file gets when it is parsed alone.
BatchIndependent ==
    Responded("/parse-resume-batch") /\ Len(request.files) <= 10 =>
        /\ response.status_code = 200
        /\ Len(response.content.results) = Len(request.files)
        /\ \A k \in 1..Len(request.files) :
              EntryAsClaimed(response.content.results[k], request.files[k])


(***************************************************************************)
(* One process serving calls one after the other on its single            *)
(* ResumeParser instance.  request holds the calls of the session and      *)
(* fresh, the instance as __init__ built it; response holds the results of *)
(* the calls served so far.                                                *)
(***************************************************************************)
Calls ==
    {Request("parse_resume_file", <<resume_pdf>>),
     Request("parse_resume_file", <<broken_pdf>>),
     Request("/parse-resume-batch", <<broken_pdf, resume_pdf>>)}

MaxCalls == 2

InitInstance ==
    /\ Imported
    /\ PDF_AVAILABLE
    /\ DOCX_AVAILABLE
    /\ pc = "call"
    /\ \E calls \in SeqsUpTo(Calls, MaxCalls) :
          request = [fn |-> "session", calls |-> calls, fresh |-> resume_parser]
    /\ response = <<>>
    /\ io = <<>>

\* The result of a call on the process's instance.
Served(call) ==
    IF call.endpoint = "parse_resume_file" THEN parse_resume_file(resume_parser, call.files[1])
    ELSE IF call.endpoint = "/parse-resume" THEN parse_resume(call.files[1])
    ELSE parse_resume_batch(call.files)

NextCall ==
    /\ pc = "call"
    /\ request.fn = "session"
    /\ Len(response) < Len(request.calls)
    /\ response' = Append(response, Served(request.calls[Len(response) + 1]))
    /\ pc' = IF Len(response) + 1 < Len(request.calls) THEN "call" ELSE "return"
    /\ UNCHANGED <<request, io>>
    /\ Frozen

NextInstance == NextCall \/ Tick

SpecInstance == InitInstance /\ [][NextInstance]_vars

\* A record without its parsed_at timestamp.
Unstamped(record) == [record EXCEPT !.metadata.parsed_at = None]

\* What the result of a call holds for the k-th file of the call: the record,
\* without its timestamp, or the failure.
Outcome(call, result, k) ==
    IF call.endpoint = "parse_resume_file"
    THEN IF result.ok THEN Some(Unstamped(result.value)) ELSE <<"error", result.exc>>
    ELSE IF call.endpoint = "/parse-resume"
    THEN IF result.status_code = 200 THEN Some(Unstamped(result.content.data))
         ELSE <<"error", result.content.detail>>
    ELSE IF result.content.results[k].status = "success"
    THEN Some(Unstamped(result.content.results[k].data))
    ELSE <<"error", result.content.results[k].message>>

\* The same for the result of parse_resume_file on a parser.
Alone(result) ==
    IF result.ok THEN Some(Unstamped(result.value)) ELSE <<"error", result.exc>>

SameAsFresh(call, result, fresh) ==
    \A k \in 1..Len(call.files) :
        \A alone \in {parse_resume_file(fresh, call.files[k])} :
            Outcome(call, result, k) = Alone(alone)

=============================================================================
